---- MODULE Spec2Model ----
EXTENDS Integers, Sequences, FiniteSets, TLC

(***************************************************************************)
(* Model of src/sabreclient.py: SabreBaikalCardDAVClient, a CardDAV client *)
(* (list / create / read / update / delete of vCards) talking to a         *)
(* SabreDAV/Baikal address book, and of its __main__ example scenario.     *)
(*                                                                         *)
(* Python strings are sequences of tokens; the token "/" is the slash and  *)
(* every other token is a run of characters without a slash.  Payloads     *)
(* (vCard text) are sequences of code points, and their encoded form is a  *)
(* sequence of bytes.                                                      *)
(***************************************************************************)

VARIABLES client, store, tagctr, issued, known, ret, ncalls, main, gone

vars == <<client, store, tagctr, issued, known, ret, ncalls, main, gone>>

\* ------------------------------------------------------------------ bounds

\* number of identifiers uuid.uuid4() can hand out in one run
MaxIds == 2
\* number of version tags the server hands out in one run (writes applied)
MaxTag == 3
\* number of calls of the single caller in one run
MaxCalls == 3
\* number of calls of the two callers together in one run
MaxConcCalls == 3

\* number of calls in one run of the listing specification
MaxListCalls == 3
\* number of calls in one run of the configuration specification
MaxConfigCalls == 2

Ids == 1 .. MaxIds
Callers == {"a", "b"}

\* ------------------------------------------------------- program constants

Created == 201
OK == 200
NoContent == 204
MultiStatus == 207
PreconditionFailed == 412
NotFound == 404
ServerError == 500
\* etag=None, the default of update_contact and delete_contact
NoTag == 0

\* ------------------------------------------------------------ Python values

PyNone == [t |-> "None", v |-> <<>>]
PyBool(b) == [t |-> "bool", v |-> b]
PyStr(s) == [t |-> "str", v |-> s]
PyList(l) == [t |-> "list", v |-> l]
Raised(e) == [t |-> "raise", v |-> e]
Response(status, content, doc) ==
  [t |-> "Response", v |-> [status_code |-> status, content |-> content, doc |-> doc]]

\* equality of two Python values (type first, then the value)
PyEq(a, b) == a.t = b.t /\ a.v = b.v

\* bool(x): None is false, a requests.Response is true iff its status is
\* below 400 (Response.__bool__ is Response.ok), a list or str iff non-empty
Truthy(x) ==
  CASE x.t = "None" -> FALSE
    [] x.t = "Response" -> x.v.status_code < 400
    [] x.t = "bool" -> x.v
    [] OTHER -> Len(x.v) > 0

\* ---------------------------------------------------------- str operations

RECURSIVE rstrip(_)
rstrip(s) ==
  IF s # <<>> /\ s[Len(s)] = "/" THEN rstrip(SubSeq(s, 1, Len(s) - 1)) ELSE s

RECURSIVE lstrip(_)
lstrip(s) ==
  IF s # <<>> /\ s[1] = "/" THEN lstrip(Tail(s)) ELSE s

strip(s) == lstrip(rstrip(s))

replace(s, old, new) == [i \in 1 .. Len(s) |-> IF s[i] = old THEN new ELSE s[i]]

\* a path with every run of slashes reduced to one slash
RECURSIVE collapse(_)
collapse(s) ==
  IF Len(s) < 2 THEN s
  ELSE IF s[1] = "/" /\ s[2] = "/" THEN collapse(Tail(s))
  ELSE <<s[1]>> \o collapse(Tail(s))

\* the tokens of s up to and including its last slash
RECURSIVE uptoLastSlash(_)
uptoLastSlash(s) ==
  IF s = <<>> \/ s[Len(s)] = "/" THEN s ELSE uptoLastSlash(SubSeq(s, 1, Len(s) - 1))

\* urllib.parse.urljoin(base, filename) for a relative filename without a
\* slash: the last path segment of base is replaced by filename, and empty
\* interior segments of the path are dropped.  base[1] is scheme and host.
urljoin(base, filename) ==
  <<base[1]>> \o collapse(uptoLastSlash(Tail(base))) \o filename

\* str.encode('utf-8') of a sequence of code points below 65536
RECURSIVE encode_utf8(_)
encode_utf8(s) ==
  IF s = <<>> THEN <<>>
  ELSE LET cp == s[1]
           b == IF cp < 128 THEN <<cp>>
                ELSE IF cp < 2048 THEN <<192 + (cp \div 64), 128 + (cp % 64)>>
                ELSE <<224 + (cp \div 4096), 128 + ((cp \div 64) % 64), 128 + (cp % 64)>>
       IN b \o encode_utf8(Tail(s))

\* bytes.decode('utf-8') of well-formed UTF-8 of code points below 65536
RECURSIVE decode_utf8(_)
decode_utf8(b) ==
  IF b = <<>> THEN <<>>
  ELSE IF b[1] < 128 THEN <<b[1]>> \o decode_utf8(Tail(b))
  ELSE IF b[1] < 224
    THEN <<(b[1] - 192) * 64 + (b[2] - 128)>> \o decode_utf8(SubSeq(b, 3, Len(b)))
  ELSE <<(b[1] - 224) * 4096 + (b[2] - 128) * 64 + (b[3] - 128)>>
         \o decode_utf8(SubSeq(b, 4, Len(b)))

\* dict(d1); d1.update(d2)
Merge(d1, d2) ==
  [k \in (DOMAIN d1) \cup (DOMAIN d2) |-> IF k \in DOMAIN d2 THEN d2[k] ELSE d1[k]]

\* the empty dict
NoHeaders == [k \in {} |-> ""]

\* --------------------------------------------------------------- the client

\* SabreBaikalCardDAVClient.__init__
__init__(base_url, base_path, username, password, addressbook_path) ==
  LET bu == rstrip(base_url)
      bp == rstrip(base_path)
      ap == strip(replace(addressbook_path, "USERNAME", username))
  IN [base_url |-> bu,
      base_path |-> bp,
      username |-> username,
      password |-> password,
      auth |-> <<username, password>>,
      addressbook_path |-> ap,
      addressbook_url |-> bu \o <<"/">> \o bp \o <<"/">> \o ap \o <<"/">>,
      headers |-> [k \in {"Content-Type"} |-> "application/xml; charset=utf-8"]]

\* f"{uid}.vcf"
filename(uid) == <<ToString(uid) \o ".vcf">>

\* ------------------------------------------------- the server and the network

\* the server path of the address book the client is configured for:
\* base path, then address book path, as the server reports it in hrefs
ServerRoot(cl) ==
  collapse(<<"/">> \o strip(cl.base_path) \o <<"/">> \o cl.addressbook_path \o <<"/">>)

\* a contact that does not exist
Absent == [exists |-> FALSE, content |-> <<>>, etag |-> NoTag]

\* the resource a request URL names on the server: the address book, one of
\* its contacts, or nothing (repeated slashes in the path are merged)
Resolve(cl, url) ==
  LET path == collapse(Tail(url))
  IN IF url[1] # cl.base_url[1] THEN [kind |-> "none", id |-> 0]
     ELSE IF path = ServerRoot(cl) THEN [kind |-> "collection", id |-> 0]
     ELSE IF \E i \in Ids : path = ServerRoot(cl) \o filename(i)
       THEN [kind |-> "contact", id |-> CHOOSE i \in Ids : path = ServerRoot(cl) \o filename(i)]
     ELSE [kind |-> "none", id |-> 0]

StatusLine(code) == [version |-> "HTTP/1.1", code |-> code]

\* one response element of a multi-status document: href holds the text of the
\* href element (empty when the element is missing); each propstat has a status
\* line and getetag, the text of its getetag element (empty when it has none)
ResponseElement(href, propstats) == [href |-> <<href>>, propstats |-> propstats]

\* how the server groups the properties of a contact in its response element:
\* one group with status 200 holding getetag, or that group after or before a
\* group with status 404 for a property the contact does not have
EntryShapes == {"miss_first", "etag_first", "reversed"}

Propstats(etag, shape) ==
  LET found == [status |-> StatusLine(OK), getetag |-> <<etag>>]
      missing == [status |-> StatusLine(NotFound), getetag |-> <<>>]
  IN CASE shape = "miss_first" -> <<missing, found>>
       [] shape = "etag_first" -> <<found, missing>>
       [] OTHER -> <<found>>

RECURSIVE ContactElements(_, _, _, _)
ContactElements(cl, st, i, shape) ==
  IF i > MaxIds THEN <<>>
  ELSE (IF st[i].exists
          THEN <<ResponseElement(ServerRoot(cl) \o filename(i), Propstats(st[i].etag, shape))>>
          ELSE <<>>)
       \o ContactElements(cl, st, i + 1, shape)

Reverse(q) == [k \in 1 .. Len(q) |-> q[Len(q) + 1 - k]]

\* how the server reports the address book itself in a Depth: 1 listing
SelfShapes == {"self_none", "self_404", "self_200"}

\* the multi-status body of a Depth: 1 PROPFIND for getetag; the contacts come
\* in the order of their names, or in the opposite order
Multistatus(cl, st, ctr, shape) ==
  (CASE shape = "self_404" ->
          <<ResponseElement(ServerRoot(cl),
                            <<[status |-> StatusLine(NotFound), getetag |-> <<NoTag>>]>>)>>
     [] shape = "self_200" ->
          <<ResponseElement(ServerRoot(cl),
                            <<[status |-> StatusLine(OK), getetag |-> <<ctr + 1>>]>>)>>
     [] OTHER -> <<>>)
  \o (IF shape = "reversed" THEN Reverse(ContactElements(cl, st, 1, shape))
                            ELSE ContactElements(cl, st, 1, shape))

\* how a request fares: "normal" is served and answered as the protocol says;
\* "lost_request" never reaches the server and "lost_response" is served but its
\* response never arrives (both make requests.request raise); "error" is
\* refused by the server with 500; "as200" and "as204" are served, and a
\* successful answer carries that status instead of the protocol's
Modes == {"normal", "lost_request", "lost_response", "error", "as200", "as204"}

\* the status of a request the server served successfully
Answered(mode, status) ==
  CASE mode = "as200" -> OK
    [] mode = "as204" -> NoContent
    [] OTHER -> status

\* the server's handling of one request: the new store and tag counter and the
\* response
Serve(cl, st, ctr, req, mode, shape) ==
  LET target == Resolve(cl, req.url)
      i == target.id
      reply(status, content, doc) ==
        [store |-> st, tagctr |-> ctr, out |-> Response(status, content, doc)]
      conditional == "If-Match" \in DOMAIN req.headers
      matches == st[i].exists /\ req.headers["If-Match"] = st[i].etag
  IN IF mode = "error" THEN reply(ServerError, <<>>, <<>>)
     ELSE IF req.method = "PROPFIND" THEN
       IF target.kind = "collection"
         THEN reply(Answered(mode, MultiStatus), <<>>, Multistatus(cl, st, ctr, shape))
         ELSE reply(NotFound, <<>>, <<>>)
     ELSE IF target.kind # "contact" THEN reply(NotFound, <<>>, <<>>)
     ELSE IF req.method = "GET" THEN
       IF st[i].exists THEN reply(Answered(mode, OK), st[i].content, <<>>)
                       ELSE reply(NotFound, <<>>, <<>>)
     ELSE IF req.method = "PUT" THEN
       IF conditional /\ ~matches THEN reply(PreconditionFailed, <<>>, <<>>)
       ELSE [store |-> [st EXCEPT ![i] = [exists |-> TRUE, content |-> req.data,
                                          etag |-> ctr + 1]],
             tagctr |-> ctr + 1,
             out |-> Response(Answered(mode, IF st[i].exists THEN NoContent ELSE Created),
                              <<>>, <<>>)]
     ELSE \* DELETE
       IF conditional /\ ~matches THEN reply(PreconditionFailed, <<>>, <<>>)
       ELSE IF ~st[i].exists THEN reply(NotFound, <<>>, <<>>)
       ELSE [store |-> [st EXCEPT ![i] = Absent],
             tagctr |-> ctr,
             out |-> Response(Answered(mode, NoContent), <<>>, <<>>)]

\* requests.request(method, url, auth=..., data=..., headers=...): a Response,
\* or RequestException raised when no response arrives
Attempt(cl, st, ctr, req, mode, shape) ==
  IF mode = "lost_request"
    THEN [store |-> st, tagctr |-> ctr, out |-> Raised("RequestException")]
  ELSE LET s == Serve(cl, st, ctr, req, mode, shape)
       IN IF mode = "lost_response"
            THEN [s EXCEPT !.out = Raised("RequestException")]
            ELSE s

\* a try block that calls requests.request again, once, after it raised
Exchange_retrying(cl, st, ctr, req, mode, shape) ==
  LET x == Attempt(cl, st, ctr, req, mode, shape)
      y == Attempt(cl, x.store, x.tagctr, req, "normal", shape)
  IN IF x.out.t = "raise"
       THEN [store |-> y.store, tagctr |-> y.tagctr, out |-> y.out, sent |-> <<req, req>>]
       ELSE [store |-> x.store, tagctr |-> x.tagctr, out |-> x.out, sent |-> <<req>>]

\* the try block of _dav_request: requests.request is called once; sent is the
\* sequence of the requests issued
Exchange(cl, st, ctr, req, mode, shape) ==
  LET x == Attempt(cl, st, ctr, req, mode, shape)
  IN [store |-> x.store, tagctr |-> x.tagctr, out |-> x.out, sent |-> <<req>>]

\* all_headers bound to self.headers itself instead of a copy of it
all_headers_aliased(cl, headers) ==
  LET merged == IF DOMAIN headers # {} THEN Merge(cl.headers, headers) ELSE cl.headers
  IN [sent |-> merged, self |-> merged]

\* all_headers: a copy of self.headers, updated by the per-request headers when
\* that dict is not empty (sent); self is self.headers after that
all_headers(cl, headers) ==
  [sent |-> IF DOMAIN headers # {} THEN Merge(cl.headers, headers) ELSE cl.headers,
   self |-> cl.headers]

\* the request _dav_request sends, and defaults, self.headers once it is built
Request(cl, method, url, data, headers) ==
  [method |-> method,
   url |-> url,
   auth |-> cl.auth,
   data |-> data,
   headers |-> all_headers(cl, headers).sent,
   defaults |-> all_headers(cl, headers).self]

\* what _dav_request gives its caller for the outcome x of requests.request:
\* a status of 400 or more makes raise_for_status raise HTTPError, which the
\* handler catches and turns into None; when requests.request itself raised,
\* `response` is unbound and the handler's `if response is not None` raises
\* UnboundLocalError, which leaves _dav_request
_dav_request(x) ==
  IF x.t = "raise" THEN Raised("UnboundLocalError")
  ELSE IF x.v.status_code >= 400 THEN PyNone
  ELSE x

\* response.status_code of what _dav_request returned (0: no response object)
status_code(response) == IF response.t = "Response" THEN response.v.status_code ELSE 0

\* ------------------------------------------------------ the public operations

\* status.text.startswith('HTTP/1.1 200')
startswith200(status) == status.version = "HTTP/1.1" /\ status.code = OK

\* the test of list_contacts on one response element: an href, a first propstat
\* whose status is 200, a getetag in it, and an href that is not the address book
IsContact(cl, el) ==
  /\ el.href # <<>>
  /\ el.propstats # <<>>
  /\ startswith200(el.propstats[1].status)
  /\ el.propstats[1].getetag # <<>>
  /\ strip(el.href[1]) # cl.addressbook_path

\* the loop of list_contacts putting each entry before the earlier ones
RECURSIVE contacts_newest_first(_, _)
contacts_newest_first(cl, doc) ==
  IF doc = <<>> THEN <<>>
  ELSE contacts_newest_first(cl, Tail(doc))
       \o (IF IsContact(cl, doc[1])
             THEN <<[href |-> doc[1].href[1], etag |-> doc[1].propstats[1].getetag[1]]>>
             ELSE <<>>)

\* the loop of list_contacts over the response elements, in document order
RECURSIVE contacts(_, _)
contacts(cl, doc) ==
  IF doc = <<>> THEN <<>>
  ELSE (IF IsContact(cl, doc[1])
          THEN <<[href |-> doc[1].href[1], etag |-> doc[1].propstats[1].getetag[1]]>>
          ELSE <<>>)
       \o contacts(cl, Tail(doc))

\* list_contacts ending in `return []` where the code has `return None`
list_return_empty(cl, response) ==
  IF response.t = "raise" THEN response
  ELSE IF Truthy(response) /\ status_code(response) = MultiStatus
    THEN PyList(contacts(cl, response.v.doc))
  ELSE PyList(<<>>)

\* list_contacts ending in `return contacts or None`
list_return_none_if_empty(cl, response) ==
  IF response.t = "raise" THEN response
  ELSE IF Truthy(response) /\ status_code(response) = MultiStatus
            /\ contacts(cl, response.v.doc) # <<>>
    THEN PyList(contacts(cl, response.v.doc))
  ELSE PyNone

list_return(cl, response) ==
  IF response.t = "raise" THEN response
  ELSE IF Truthy(response) /\ status_code(response) = MultiStatus
    THEN PyList(contacts(cl, response.v.doc))
  ELSE PyNone

\* create_contact testing `if response:` alone, without the 201
create_return_any_success(response, url) ==
  IF response.t = "raise" THEN response
  ELSE IF Truthy(response) THEN PyStr(url)
  ELSE PyNone

create_return(response, url) ==
  IF response.t = "raise" THEN response
  ELSE IF Truthy(response) /\ status_code(response) = Created THEN PyStr(url)
  ELSE PyNone

\* read_contact decoding the body as latin-1, one code point per byte
read_return_latin1(response) ==
  IF response.t = "raise" THEN response
  ELSE IF Truthy(response) /\ status_code(response) = OK THEN PyStr(response.v.content)
  ELSE PyNone

read_return(response) ==
  IF response.t = "raise" THEN response
  ELSE IF Truthy(response) /\ status_code(response) = OK
    THEN PyStr(decode_utf8(response.v.content))
  ELSE PyNone

\* update_contact testing for 200 where the code tests for 204
update_return_expects_200(response) ==
  IF response.t = "raise" THEN response
  ELSE IF Truthy(response) /\ status_code(response) = OK THEN PyBool(TRUE)
  ELSE PyBool(FALSE)

update_return(response) ==
  IF response.t = "raise" THEN response
  ELSE IF Truthy(response) /\ status_code(response) = NoContent THEN PyBool(TRUE)
  ELSE PyBool(FALSE)

delete_return(response) ==
  IF response.t = "raise" THEN response
  ELSE IF Truthy(response) /\ status_code(response) = NoContent THEN PyBool(TRUE)
  ELSE PyBool(FALSE)

\* update_contact and delete_contact leaving If-Match out
update_headers_unconditional(etag) == [k \in {"Content-Type"} |-> "text/vcard; charset=utf-8"]

delete_headers_unconditional(etag) == NoHeaders

\* the headers update_contact and delete_contact pass to _dav_request
update_headers(etag) ==
  LET headers == [k \in {"Content-Type"} |-> "text/vcard; charset=utf-8"]
  IN IF etag # NoTag THEN Merge(headers, [k \in {"If-Match"} |-> etag]) ELSE headers

delete_headers(etag) ==
  IF etag # NoTag THEN Merge(NoHeaders, [k \in {"If-Match"} |-> etag]) ELSE NoHeaders

\* the elements of a sequence
Range(q) == {q[k] : k \in 1 .. Len(q)}

\* an identifier generator that can repeat itself
uuid4_repeating(used) == Ids

\* uuid.uuid4(): an identifier no earlier call was given (used is the sequence
\* of the identifiers given so far)
uuid4(used) == Ids \ Range(used)

\* the URL create_contact writes to
create_url(cl, uid) == urljoin(cl.addressbook_url, filename(uid))

\* The five methods.  Each gives, for the store st and tag counter ctr its
\* request meets and the way mode the request fares: the store and counter
\* afterwards, the outcome out of requests.request, and result, what the
\* method returns or raises.

Outcome(href, x, result) ==
  [href |-> href, store |-> x.store, tagctr |-> x.tagctr, out |-> x.out, sent |-> x.sent,
   result |-> result]

list_contacts(cl, st, ctr, mode, shape) ==
  LET url == cl.addressbook_url
      headers == [k \in {"Depth"} |-> "1"]
      x == Exchange(cl, st, ctr, Request(cl, "PROPFIND", url, "propfind", headers), mode, shape)
  IN Outcome(url, x, list_return(cl, _dav_request(x.out)))

\* uid is the value uuid.uuid4() gives this call
create_contact(cl, st, ctr, vcard_data, uid, mode) ==
  LET url == create_url(cl, uid)
      headers == [k \in {"Content-Type"} |-> "text/vcard; charset=utf-8"]
      x == Exchange(cl, st, ctr, Request(cl, "PUT", url, encode_utf8(vcard_data), headers),
                    mode, "self_none")
  IN Outcome(url, x, create_return(_dav_request(x.out), url))

read_contact(cl, st, ctr, contact_href, mode) ==
  LET x == Exchange(cl, st, ctr, Request(cl, "GET", contact_href, <<>>, NoHeaders),
                    mode, "self_none")
  IN Outcome(contact_href, x, read_return(_dav_request(x.out)))

update_contact(cl, st, ctr, contact_href, vcard_data, etag, mode) ==
  LET x == Exchange(cl, st, ctr,
                    Request(cl, "PUT", contact_href, encode_utf8(vcard_data),
                            update_headers(etag)),
                    mode, "self_none")
  IN Outcome(contact_href, x, update_return(_dav_request(x.out)))

delete_contact(cl, st, ctr, contact_href, etag, mode) ==
  LET x == Exchange(cl, st, ctr,
                    Request(cl, "DELETE", contact_href, <<>>, delete_headers(etag)),
                    mode, "self_none")
  IN Outcome(contact_href, x, delete_return(_dav_request(x.out)))

\* ------------------------------------------------------------------- callers

\* vCard texts the callers write: "A" and "e-acute, euro sign"
Payloads == {<<65>>, <<233, 8364>>}

\* the contact URLs a caller passes to read, update and delete: the locations
\* create_contact has written to so far, whatever became of them
Hrefs(cl, used) == {create_url(cl, i) : i \in Range(used)}

\* The last call of a caller: the operation, its arguments, how its request
\* fared, the status of the response (0: none came back) and what the call
\* returned or raised.  id is the contact href names on the server (0: none),
\* pre and post that contact before and after the call, sent the requests the
\* call issued and out the outcome of requests.request.
NoCall ==
  [op |-> "none", href |-> <<>>, id |-> 0, etag |-> NoTag, data |-> <<>>, mode |-> "normal",
   status |-> 0, result |-> PyNone, pre |-> Absent, post |-> Absent,
   sent |-> <<>>, out |-> PyNone]

Call(op, etag, data, mode, o) ==
  LET id == Resolve(client, o.href).id
  IN [op |-> op, href |-> o.href, id |-> id, etag |-> etag, data |-> data, mode |-> mode,
      status |-> IF o.out.t = "Response" THEN o.out.v.status_code ELSE 0,
      result |-> o.result,
      pre |-> IF id = 0 THEN Absent ELSE store[id],
      post |-> IF id = 0 THEN Absent ELSE o.store[id],
      sent |-> o.sent, out |-> o.out]

\* the version tags a caller holding the listing `listing` has for href (the
\* __main__ scenario matches base_url + entry href against the URL
\* create_contact returned)
TagsIn(listing, href) ==
  IF listing.t = "list"
    THEN {listing.v[k].etag : k \in
            {j \in 1 .. Len(listing.v) : client.base_url \o listing.v[j].href = href}}
    ELSE {}

\* the contacts a delete_contact call that returned True has named, with it
Gone(o, op) ==
  IF op = "delete" /\ PyEq(o.result, PyBool(TRUE))
    THEN gone \cup {Resolve(client, o.href).id}
    ELSE gone

\* the client object after a call: self.headers as the call left it
After(cl, o) == [cl EXCEPT !.headers = o.sent[Len(o.sent)].defaults]

\* the server and the client after the call, and the call in the caller's record
Effect(c, o, call) ==
  /\ store' = o.store
  /\ tagctr' = o.tagctr
  /\ client' = After(client, o)
  /\ ret' = [ret EXCEPT ![c] = call]
  /\ ncalls' = ncalls + 1
  /\ gone' = Gone(o, call.op)
  /\ UNCHANGED main

List(c, modes, shapes, limit) ==
  /\ ncalls < limit
  /\ \E mode \in modes, shape \in shapes :
       \E o \in {list_contacts(client, store, tagctr, mode, shape)} :
         /\ Effect(c, o, Call("list", NoTag, <<>>, mode, o))
         /\ known' = IF o.result.t = "raise" THEN known ELSE [known EXCEPT ![c] = o.result]
         /\ UNCHANGED issued

Create(c, modes, limit) ==
  /\ ncalls < limit
  /\ tagctr < MaxTag
  /\ \E vcard_data \in Payloads, uid \in uuid4(issued), mode \in modes :
       \E o \in {create_contact(client, store, tagctr, vcard_data, uid, mode)} :
         /\ Effect(c, o, Call("create", NoTag, vcard_data, mode, o))
         /\ issued' = Append(issued, uid)
         /\ UNCHANGED known

Read(c, modes, limit) ==
  /\ ncalls < limit
  /\ \E contact_href \in Hrefs(client, issued), mode \in modes :
       \E o \in {read_contact(client, store, tagctr, contact_href, mode)} :
         /\ Effect(c, o, Call("read", NoTag, <<>>, mode, o))
         /\ UNCHANGED <<issued, known>>

Update(c, modes, limit) ==
  /\ ncalls < limit
  /\ tagctr < MaxTag
  /\ \E contact_href \in Hrefs(client, issued), vcard_data \in Payloads, mode \in modes :
       \E etag \in TagsIn(known[c], contact_href) \cup {NoTag} :
         \E o \in {update_contact(client, store, tagctr, contact_href, vcard_data, etag, mode)} :
           /\ Effect(c, o, Call("update", etag, vcard_data, mode, o))
           /\ UNCHANGED <<issued, known>>

Delete(c, modes, limit) ==
  /\ ncalls < limit
  /\ \E contact_href \in Hrefs(client, issued), mode \in modes :
       \E etag \in TagsIn(known[c], contact_href) \cup {NoTag} :
         \E o \in {delete_contact(client, store, tagctr, contact_href, etag, mode)} :
           /\ Effect(c, o, Call("delete", etag, <<>>, mode, o))
           /\ UNCHANGED <<issued, known>>

\* ------------------------------------------------------------ specifications

\* the constructor arguments tried
BaseUrls == {<<"http://host">>, <<"http://host", "/">>}
BasePaths == {<<"dav.php">>, <<"/", "dav.php">>}
AddressbookPaths == {<<"addressbooks", "/", "USERNAME", "/", "default", "/">>}

\* the address book when a run starts: contacts 1 .. n, written earlier
InitialStore(n) ==
  [i \in Ids |-> IF i <= n
                   THEN [exists |-> TRUE, content |-> encode_utf8(<<66>>), etag |-> i]
                   ELSE Absent]

\* the __main__ scenario before its first statement
MainStart ==
  [pc |-> "list1", clean |-> TRUE, new_contact_href |-> PyNone, read_vcard |-> PyNone,
   current_etag |-> NoTag, updated |-> PyNone, read_updated_vcard |-> PyNone,
   final_etag |-> NoTag, deleted |-> PyNone]

InitWith(bu, bp, ap, n) ==
  /\ client = __init__(bu, bp, "dan", "", ap)
  /\ store = InitialStore(n)
  /\ tagctr = n
  /\ issued = [k \in 1 .. n |-> k]
  /\ known = [c \in Callers |-> PyNone]
  /\ ret = [c \in Callers |-> NoCall]
  /\ ncalls = 0
  /\ main = MainStart
  /\ gone = {}

\* One caller, every way a request can fare, several configurations.
Init ==
  \E bu \in BaseUrls, bp \in BasePaths, ap \in AddressbookPaths, n \in 0 .. 1 :
    InitWith(bu, bp, ap, n)

Next ==
  \/ List("a", Modes, SelfShapes, MaxCalls)
  \/ Create("a", Modes, MaxCalls)
  \/ Read("a", Modes, MaxCalls)
  \/ Update("a", Modes, MaxCalls)
  \/ Delete("a", Modes, MaxCalls)

Spec == Init /\ [][Next]_vars

\* Two callers of the same address book, their calls interleaved in every
\* order; requests are served, or fail on the way.
ConcModes == {"normal", "lost_response"}

\* the collection's own entry as the server sends it for a collection, which
\* has no getetag
ConcShapes == {"self_404"}

\* both callers have listed the address book, which holds one contact
ConcInit ==
  /\ client = __init__(<<"http://host", "/">>, <<"dav.php">>, "dan", "",
                       <<"addressbooks", "/", "USERNAME", "/", "default", "/">>)
  /\ store = InitialStore(1)
  /\ tagctr = 1
  /\ issued = <<1>>
  /\ known = [c \in Callers |->
                list_contacts(client, store, tagctr, "normal", "self_404").result]
  /\ ret = [c \in Callers |-> NoCall]
  /\ ncalls = 0
  /\ main = MainStart
  /\ gone = {}

ConcNext ==
  \E c \in Callers :
    \/ List(c, ConcModes, ConcShapes, MaxConcCalls)
    \/ Create(c, ConcModes, MaxConcCalls)
    \/ Read(c, ConcModes, MaxConcCalls)
    \/ Update(c, ConcModes, MaxConcCalls)
    \/ Delete(c, ConcModes, MaxConcCalls)

ConcSpec == ConcInit /\ [][ConcNext]_vars

\* requests that are all served as the protocol says
ListModes == {"normal"}

\* Clients constructed from every combination of arguments written with and
\* without leading and trailing slashes, an empty base path included, each
\* making a few calls that are served as the protocol says.
ConfigBaseUrls == {<<"http://host">>, <<"http://host", "/">>}
ConfigBasePaths ==
  {<<>>, <<"dav.php">>, <<"dav.php", "/">>, <<"/", "dav.php">>, <<"/", "dav.php", "/">>}
ConfigAddressbookPaths ==
  {<<"addressbooks", "/", "USERNAME", "/", "default">>,
   <<"addressbooks", "/", "USERNAME", "/", "default", "/">>,
   <<"/", "addressbooks", "/", "USERNAME", "/", "default">>,
   <<"/", "addressbooks", "/", "USERNAME", "/", "default", "/">>}

ConfigInit ==
  \E bu \in ConfigBaseUrls, bp \in ConfigBasePaths, ap \in ConfigAddressbookPaths :
    InitWith(bu, bp, ap, 1)

ConfigNext ==
  \/ List("a", ListModes, SelfShapes, MaxConfigCalls)
  \/ Create("a", ListModes, MaxConfigCalls)
  \/ Read("a", ListModes, MaxConfigCalls)
  \/ Update("a", ListModes, MaxConfigCalls)
  \/ Delete("a", ListModes, MaxConfigCalls)

ConfigSpec == ConfigInit /\ [][ConfigNext]_vars

\* Listings of an address book of zero to MaxIds contacts, the server writing
\* the multi-status document in each of its forms; creates and deletes between
\* the listings change what there is to list.
ListShapes == SelfShapes \cup EntryShapes

ListInit ==
  \E n \in 0 .. MaxIds :
    InitWith(<<"http://host">>, <<"dav.php">>,
             <<"addressbooks", "/", "USERNAME", "/", "default", "/">>, n)

ListNext ==
  \/ List("a", ListModes, ListShapes, MaxListCalls)
  \/ Create("a", ListModes, MaxListCalls)
  \/ Delete("a", ListModes, MaxListCalls)

ListSpec == ListInit /\ [][ListNext]_vars

\* ------------------------------------------------------ the __main__ scenario

\* new_vcard and updated_vcard, the two vCard texts of the scenario ("A", "AL")
new_vcard == <<65>>
updated_vcard == <<65, 76>>

\* the loop over a listing: the etag of the first entry whose base_url + href
\* is url, NoTag when the listing is None or empty or has no such entry
RECURSIVE first_etag(_, _, _)
first_etag(cl, entries, url) ==
  IF entries = <<>> THEN NoTag
  ELSE IF cl.base_url \o entries[1].href = url THEN entries[1].etag
  ELSE first_etag(cl, Tail(entries), url)

found_etag(cl, listing, url) ==
  IF listing.t = "list" /\ Truthy(listing) THEN first_etag(cl, listing.v, url) ELSE NoTag

\* one statement of the scenario: the server after its request, the
\* scenario's variables after it; an exception leaving the call ends the script
MainStep(o, mode, next) ==
  /\ store' = o.store
  /\ tagctr' = o.tagctr
  /\ main' = IF o.result.t = "raise"
               THEN [main EXCEPT !.pc = "crashed", !.clean = FALSE]
               ELSE [next EXCEPT !.clean = main.clean /\ mode = "normal"]
  /\ client' = After(client, o)
  /\ gone' = Gone(o, IF main.pc = "delete" THEN "delete" ELSE "other")
  /\ UNCHANGED <<known, ret, ncalls>>

\* contacts = client.list_contacts()
Main_list1 ==
  /\ main.pc = "list1"
  /\ \E mode \in Modes, shape \in SelfShapes :
       \E o \in {list_contacts(client, store, tagctr, mode, shape)} :
         /\ MainStep(o, mode, [main EXCEPT !.pc = "create"])
         /\ UNCHANGED issued

\* new_contact_href = client.create_contact(new_vcard)
Main_create ==
  /\ main.pc = "create"
  /\ tagctr < MaxTag
  /\ \E uid \in uuid4(issued), mode \in Modes :
       \E o \in {create_contact(client, store, tagctr, new_vcard, uid, mode)} :
         /\ MainStep(o, mode, [main EXCEPT !.new_contact_href = o.result,
                                           !.pc = IF Truthy(o.result) THEN "read1"
                                                                      ELSE "final_list"])
         /\ issued' = Append(issued, uid)

\* read_vcard = client.read_contact(new_contact_href)
Main_read1 ==
  /\ main.pc = "read1"
  /\ \E mode \in Modes :
       \E o \in {read_contact(client, store, tagctr, main.new_contact_href.v, mode)} :
         /\ MainStep(o, mode, [main EXCEPT !.read_vcard = o.result,
                                           !.pc = IF Truthy(o.result) THEN "relist1"
                                                                      ELSE "final_list"])
         /\ UNCHANGED issued

\* current_contacts = client.list_contacts() and the search for current_etag
Main_relist1 ==
  /\ main.pc = "relist1"
  /\ \E mode \in Modes, shape \in SelfShapes :
       \E o \in {list_contacts(client, store, tagctr, mode, shape)} :
         \E etag \in {found_etag(client, o.result, main.new_contact_href.v)} :
           /\ MainStep(o, mode, [main EXCEPT !.current_etag = etag,
                                             !.pc = IF etag # NoTag THEN "update"
                                                                    ELSE "final_list"])
           /\ UNCHANGED issued

\* updated = client.update_contact(new_contact_href, updated_vcard, etag=current_etag)
Main_update ==
  /\ main.pc = "update"
  /\ tagctr < MaxTag
  /\ \E mode \in Modes :
       \E o \in {update_contact(client, store, tagctr, main.new_contact_href.v,
                                updated_vcard, main.current_etag, mode)} :
         /\ MainStep(o, mode, [main EXCEPT !.updated = o.result,
                                           !.pc = IF Truthy(o.result) THEN "read2"
                                                                      ELSE "final_list"])
         /\ UNCHANGED issued

\* read_updated_vcard = client.read_contact(new_contact_href)
Main_read2 ==
  /\ main.pc = "read2"
  /\ \E mode \in Modes :
       \E o \in {read_contact(client, store, tagctr, main.new_contact_href.v, mode)} :
         /\ MainStep(o, mode, [main EXCEPT !.read_updated_vcard = o.result, !.pc = "relist2"])
         /\ UNCHANGED issued

\* final_contacts = client.list_contacts() and the search for final_etag
Main_relist2 ==
  /\ main.pc = "relist2"
  /\ \E mode \in Modes, shape \in SelfShapes :
       \E o \in {list_contacts(client, store, tagctr, mode, shape)} :
         \E etag \in {found_etag(client, o.result, main.new_contact_href.v)} :
           /\ MainStep(o, mode, [main EXCEPT !.final_etag = etag,
                                             !.pc = IF etag # NoTag THEN "delete"
                                                                    ELSE "final_list"])
           /\ UNCHANGED issued

\* deleted = client.delete_contact(new_contact_href, etag=final_etag)
Main_delete ==
  /\ main.pc = "delete"
  /\ \E mode \in Modes :
       \E o \in {delete_contact(client, store, tagctr, main.new_contact_href.v,
                                main.final_etag, mode)} :
         /\ MainStep(o, mode, [main EXCEPT !.deleted = o.result, !.pc = "final_list"])
         /\ UNCHANGED issued

\* contacts_after_ops = client.list_contacts()
Main_final_list ==
  /\ main.pc = "final_list"
  /\ \E mode \in Modes, shape \in SelfShapes :
       \E o \in {list_contacts(client, store, tagctr, mode, shape)} :
         /\ MainStep(o, mode, [main EXCEPT !.pc = "done"])
         /\ UNCHANGED issued

\* The scenario run alone against an address book that is empty or holds one
\* contact: client is built from SERVER_URL, BASE_PATH, USERNAME, PASSWORD.
MainInit ==
  \E n \in 0 .. 1 :
    InitWith(<<"http://localhost:8040", "/">>, <<"dav.php">>,
             <<"addressbooks", "/", "USERNAME", "/", "agents", "/">>, n)

MainNext ==
  \/ Main_list1
  \/ Main_create
  \/ Main_read1
  \/ Main_relist1
  \/ Main_update
  \/ Main_read2
  \/ Main_relist2
  \/ Main_delete
  \/ Main_final_list

MainSpec == MainInit /\ [][MainNext]_vars

\* --------------------------------------------------------------------- claims

True == PyBool(TRUE)

\* a call of update_contact or delete_contact that carried a version tag other
\* than the one the contact had on the server when the request arrived
Stale(r) == r.op \in {"update", "delete"} /\ r.etag # NoTag /\ r.etag # r.pre.etag

\* C1: an update or delete carrying a version tag that is not the contact's
\* current tag does not report success and leaves the contact as the other
\* writer left it; a read of that version returns the other writer's payload.
C1_StaleTagRejected ==
  \A c \in Callers :
    Stale(ret[c]) =>
      /\ ~PyEq(ret[c].result, True)
      /\ ret[c].post = ret[c].pre
      /\ \A d \in Callers :
           (/\ ret[d].op = "read" /\ ret[d].id = ret[c].id /\ ret[d].mode = "normal"
            /\ ret[d].pre = ret[c].post /\ ret[c].post.exists)
           => PyEq(ret[d].result, PyStr(decode_utf8(ret[c].pre.content)))

\* a caller listed contact 1 with tag T1, the other caller rewrote it, the
\* first caller's update with T1 was answered 412, and the other caller read it
C1_Witness ==
  \E c, d \in Callers :
    /\ c # d
    /\ ret[c].op = "update" /\ Stale(ret[c]) /\ ret[c].pre.exists
    /\ ret[c].status = PreconditionFailed
    /\ ret[d].op = "read" /\ ret[d].id = ret[c].id /\ ret[d].status = OK
    /\ ret[d].pre = ret[c].post
    /\ ret[c].pre.content # encode_utf8(ret[c].data)

\* two last calls that are updates of one contact carrying one version tag
SameTagUpdates(c, d) ==
  /\ c # d
  /\ ret[c].op = "update" /\ ret[d].op = "update"
  /\ ret[c].id = ret[d].id
  /\ ret[c].etag # NoTag /\ ret[c].etag = ret[d].etag

\* C2: of two updates of one contact that carry the same version tag, at most
\* one returns True; it was applied to the version that carried the tag, the
\* other changed nothing, and when the other met the contact as the first left
\* it the contact ends with the payload of the one that returned True.
C2_CompareAndSwap ==
  \A c, d \in Callers :
    SameTagUpdates(c, d) =>
      /\ ~(PyEq(ret[c].result, True) /\ PyEq(ret[d].result, True))
      /\ PyEq(ret[c].result, True) =>
           /\ ret[c].pre.etag = ret[c].etag
           /\ ret[c].post.content = encode_utf8(ret[c].data)
           /\ ret[d].post = ret[d].pre
           /\ ret[d].pre = ret[c].post =>
                /\ store[ret[c].id].exists
                /\ store[ret[c].id].content = encode_utf8(ret[c].data)

\* both callers updated contact 1 with the tag both had listed, with different
\* payloads: one returned True, the other was answered 412
C2_Witness ==
  \E c, d \in Callers :
    /\ SameTagUpdates(c, d)
    /\ PyEq(ret[c].result, True)
    /\ ret[d].status = PreconditionFailed
    /\ ret[d].pre = ret[c].post
    /\ ret[c].data # ret[d].data

\* C3: the value update returns for a 412 answer differs from the value it
\* returns for any other failure status and from the success value.
C3_ConflictDistinct ==
  \A c \in Callers :
    (ret[c].op = "update" /\ ret[c].status = PreconditionFailed) =>
      /\ ~PyEq(ret[c].result, update_return(_dav_request(Response(NotFound, <<>>, <<>>))))
      /\ ~PyEq(ret[c].result, update_return(_dav_request(Response(ServerError, <<>>, <<>>))))
      /\ ~PyEq(ret[c].result, update_return(_dav_request(Response(NoContent, <<>>, <<>>))))

\* C4: delete returns pairwise different values for a 412 answer, a 404 answer
\* and any other failure answer, all different from the value for 204.
C4_DeleteOutcomesDistinct ==
  \A c \in Callers :
    (ret[c].op = "delete" /\ ret[c].status \in {PreconditionFailed, NotFound, ServerError}) =>
      \A other \in {PreconditionFailed, NotFound, ServerError, NoContent} \ {ret[c].status} :
        ~PyEq(ret[c].result, delete_return(_dav_request(Response(other, <<>>, <<>>))))

Normalized(href) == strip(href)

\* C6: no entry list returns has a location that normalizes to the address
\* book itself.
C6_SelfExcluded ==
  \A c \in Callers :
    (ret[c].op = "list" /\ ret[c].result.t = "list") =>
      \A k \in 1 .. Len(ret[c].result.v) :
        Normalized(ret[c].result.v[k].href) # Normalized(ServerRoot(client))

\* C7: create returns the new location exactly when the status is 201; any
\* other status, and no response, gives a failure and no location.
C7_CreatedOnly ==
  \A c \in Callers :
    ret[c].op = "create" =>
      /\ (ret[c].result.t = "str") <=> (ret[c].status = Created)
      /\ ret[c].result.t = "str" => ret[c].result.v = ret[c].href
      /\ ret[c].result.t # "str" => ret[c].result.t \in {"None", "raise"}

\* a create the server applied and answered with 200 or 204: no location
C7_Witness ==
  \E c \in Callers :
    /\ ret[c].op = "create"
    /\ ret[c].status \in {OK, NoContent}
    /\ ret[c].post.exists
    /\ PyEq(ret[c].result, PyNone)

C9_RoundTrip ==
  \A c, d \in Callers :
    (/\ ret[c].op = "create" /\ ret[c].result.t = "str"
     /\ ret[d].op = "read" /\ ret[d].href = ret[c].result.v
     /\ ret[d].pre = ret[c].post
     /\ ret[d].mode = "normal")
    => PyEq(ret[d].result, PyStr(ret[c].data))

\* a payload outside ASCII created by one caller and read back by the other
C9_Witness ==
  \E c, d \in Callers :
    /\ ret[c].op = "create" /\ ret[c].result.t = "str"
    /\ ret[d].op = "read" /\ ret[d].href = ret[c].result.v
    /\ ret[d].pre = ret[c].post
    /\ ret[d].status = OK
    /\ ret[c].data = <<233, 8364>>

\* C10: the scenario run alone, every request served as the protocol says:
\* create gives a location L, the listing has L with a tag T1, the update with
\* T1 returns True, the read gives the new payload, the next listing has L
\* with a tag other than T1, the delete with that tag returns True, and a
\* read of L after it is answered 404 and gives None.
C10_Lifecycle ==
  /\ main.clean => main.pc # "crashed"
  /\ (main.clean /\ main.pc \in {"final_list", "done"}) =>
       /\ main.new_contact_href.t = "str"
       /\ PyEq(main.read_vcard, PyStr(new_vcard))
       /\ main.current_etag # NoTag
       /\ PyEq(main.updated, True)
       /\ PyEq(main.read_updated_vcard, PyStr(updated_vcard))
       /\ main.final_etag # NoTag
       /\ main.final_etag # main.current_etag
       /\ PyEq(main.deleted, True)
       /\ LET o == read_contact(client, store, tagctr, main.new_contact_href.v, "normal")
          IN /\ o.out.v.status_code = NotFound
             /\ PyEq(o.result, PyNone)

\* the scenario at its end, every request having been served normally
C10_Witness ==
  /\ main.pc = "done"
  /\ main.clean
  /\ PyEq(main.deleted, True)
  /\ store[1].exists

\* the multi-status document of the response a list call received
Doc(r) == r.out.v.doc

\* a list call that parsed a multi-status document
Parsed(r) == r.op = "list" /\ r.result.t = "list"

\* a group of a response element that has status 200 and holds getetag
Has200(el, g) == startswith200(el.propstats[g].status) /\ el.propstats[g].getetag # <<>>

\* C11: every contact's response element with a group of status 200 holding the
\* version tag gives an entry with that tag, wherever the group stands among
\* the element's groups, and every entry returned comes from such a group.
C11_PartialPropstat ==
  \A c \in Callers :
    Parsed(ret[c]) =>
      /\ \A p \in 1 .. Len(Doc(ret[c])) :
           LET el == Doc(ret[c])[p]
           IN \A g \in 1 .. Len(el.propstats) :
                (Has200(el, g) /\ Normalized(el.href[1]) # Normalized(ServerRoot(client)))
                => \E k \in 1 .. Len(ret[c].result.v) :
                     ret[c].result.v[k] = [href |-> el.href[1], etag |-> el.propstats[g].getetag[1]]
      /\ \A k \in 1 .. Len(ret[c].result.v) :
           \E p \in 1 .. Len(Doc(ret[c])) :
             LET el == Doc(ret[c])[p]
             IN \E g \in 1 .. Len(el.propstats) :
                  /\ Has200(el, g)
                  /\ ret[c].result.v[k] = [href |-> el.href[1], etag |-> el.propstats[g].getetag[1]]

\* C12: the entries of a listing stand in the order of their response elements
\* in the document.
C12_ServerOrder ==
  \A c \in Callers :
    Parsed(ret[c]) =>
      \A j, k \in 1 .. Len(ret[c].result.v) :
        j < k =>
          \E p, q \in 1 .. Len(Doc(ret[c])) :
            /\ p < q
            /\ Doc(ret[c])[p].href[1] = ret[c].result.v[j].href
            /\ Doc(ret[c])[q].href[1] = ret[c].result.v[k].href

\* a listing of two contacts the server sent with the later name first
C12_Witness ==
  /\ Parsed(ret["a"])
  /\ Len(ret["a"].result.v) = 2
  /\ Doc(ret["a"])[1].href[1] = ServerRoot(client) \o filename(2)
  /\ ret["a"].result.v[1].href = ServerRoot(client) \o filename(2)

\* C13: a 207 answer whose document has no response element gives the empty
\* list, not None and not an exception.
C13_EmptyListing ==
  \A c \in Callers :
    (ret[c].op = "list" /\ ret[c].status = MultiStatus /\ Doc(ret[c]) = <<>>) =>
      PyEq(ret[c].result, PyList(<<>>))

\* a 207 answer without response elements, listed after the last contact was
\* deleted
C13_Witness ==
  /\ ret["a"].op = "list" /\ ret["a"].status = MultiStatus
  /\ Doc(ret["a"]) = <<>>
  /\ gone # {}
  /\ PyEq(ret["a"].result, PyList(<<>>))

\* C14: read returns the payload exactly when the status is 200, and its
\* outcomes for a 404 answer, for another failure answer and for no response
\* are three different outcomes.
C14_ReadOutcomesDistinct ==
  \A c \in Callers :
    ret[c].op = "read" =>
      /\ (ret[c].result.t = "str") <=> (ret[c].status = OK)
      /\ ret[c].status = NotFound =>
           /\ ~PyEq(ret[c].result, read_return(_dav_request(Response(ServerError, <<>>, <<>>))))
           /\ ~PyEq(ret[c].result, read_return(_dav_request(Raised("RequestException"))))
      /\ ret[c].status = ServerError =>
           ~PyEq(ret[c].result, read_return(_dav_request(Raised("RequestException"))))

\* C15: when requests.request gave no response the executor's outcome is a
\* failure and not a response; when it gave a response with a status of 400
\* or more the executor returns that response, status code included.
C15_ExecutorOutcomes ==
  \A c \in Callers :
    ret[c].op # "none" =>
      /\ ret[c].out.t = "raise" => _dav_request(ret[c].out).t # "Response"
      /\ (ret[c].out.t = "Response" /\ ret[c].status >= 400) =>
           /\ PyEq(_dav_request(ret[c].out), ret[c].out)
           /\ status_code(_dav_request(ret[c].out)) = ret[c].status

\* the HTTP method each operation uses
MethodOf(op) ==
  CASE op = "list" -> "PROPFIND"
    [] op = "read" -> "GET"
    [] op = "delete" -> "DELETE"
    [] OTHER -> "PUT"

\* C16: every call of a public operation issues exactly one request, of the
\* operation's method and to the operation's location, whatever its outcome.
C16_OneRequestPerCall ==
  \A c \in Callers :
    ret[c].op # "none" =>
      /\ Len(ret[c].sent) = 1
      /\ ret[c].sent[1].method = MethodOf(ret[c].op)
      /\ ret[c].sent[1].url = ret[c].href

\* a create whose request got no response, and was not sent again
C16_Witness ==
  /\ ret["a"].op = "create"
  /\ ret["a"].out.t = "raise"
  /\ ret["a"].sent = <<Request(client, "PUT", ret["a"].href, encode_utf8(ret["a"].data),
                               [k \in {"Content-Type"} |-> "text/vcard; charset=utf-8"])>>

\* no two slashes in a row
OneSlashEach(url) == \A k \in 1 .. Len(url) - 1 : ~(url[k] = "/" /\ url[k + 1] = "/")

\* C17: the collection location has one slash between consecutive segments and
\* one trailing slash, and a base path written with a leading slash gives the
\* location the same base path without it gives.
C17_CollectionNormalized ==
  /\ OneSlashEach(client.addressbook_url)
  /\ client.addressbook_url[Len(client.addressbook_url)] = "/"
  /\ strip(client.base_path) = <<"dav.php">> =>
       client.addressbook_url =
         client.base_url \o <<"/", "dav.php", "/">> \o client.addressbook_path \o <<"/">>

\* the default headers of a client
DefaultHeaders == [k \in {"Content-Type"} |-> "application/xml; charset=utf-8"]

\* the headers a call's request should carry: the defaults and the call's own
OwnHeaders(r) ==
  CASE r.op = "list" -> Merge(DefaultHeaders, [k \in {"Depth"} |-> "1"])
    [] r.op = "read" -> DefaultHeaders
    [] r.op = "create" -> [k \in {"Content-Type"} |-> "text/vcard; charset=utf-8"]
    [] r.op = "update" ->
         IF r.etag = NoTag THEN [k \in {"Content-Type"} |-> "text/vcard; charset=utf-8"]
         ELSE Merge([k \in {"Content-Type"} |-> "text/vcard; charset=utf-8"],
                    [k \in {"If-Match"} |-> r.etag])
    [] OTHER ->
         IF r.etag = NoTag THEN DefaultHeaders
         ELSE Merge(DefaultHeaders, [k \in {"If-Match"} |-> r.etag])

\* C18: after any sequence of calls the client's configuration is what the
\* constructor made of its arguments, and every request carries the default
\* headers and the headers of its own call, none of an earlier call.
C18_Stateless ==
  /\ client = __init__(client.base_url, client.base_path, client.username, client.password,
                       client.addressbook_path)
  /\ client.headers = DefaultHeaders
  /\ \A c \in Callers :
       ret[c].op # "none" =>
         \A k \in 1 .. Len(ret[c].sent) : ret[c].sent[k].headers = OwnHeaders(ret[c])

\* a read after a listing, which sent Depth, and after a write was applied,
\* which sent the vCard Content-Type: the read carries the default headers
C18_Witness ==
  /\ ret["a"].op = "read"
  /\ known["a"].t = "list"
  /\ tagctr > Len(issued)
  /\ ret["a"].sent[1].headers = DefaultHeaders

\* C19: a contact whose delete returned True does not exist again after any
\* later update or delete of the client.
C19_DeletedTerminal ==
  \A i \in gone : ~store[i].exists

\* C20: an update that was served as the protocol says and returned False left
\* the contact as it was.
C20_FailedUpdateNotApplied ==
  \A c \in Callers :
    (/\ ret[c].op = "update"
     /\ ret[c].mode = "normal"
     /\ PyEq(ret[c].result, PyBool(FALSE)))
    => ret[c].post = ret[c].pre

====
